---- MODULE Spec2Model ----
(***************************************************************************)
(* Model of the fixed-point type generated by the implement_fixed! macro   *)
(* of primitives/arithmetic/src/fixed.rs.                                  *)
(*                                                                         *)
(* The macro is instantiated for a signed inner type, its unsigned         *)
(* counterpart, a narrower unsigned type, a per-thing type and a divisor.  *)
(* The model is an instance with an 8-bit signed inner type, an 8-bit      *)
(* unsigned type, a 4-bit narrower unsigned type and DIV = 10: the widths  *)
(* are scaled down from (i64, u64, u32, 10^9) so that every pair of inner  *)
(* values can be enumerated, keeping DIV a power of ten with               *)
(* DIV * DIV <= max inner and DIV <= max of the narrower unsigned type.    *)
(*                                                                         *)
(* Every operation of the type is a pure function; it is modelled by an    *)
(* operator that follows the code step by step.  A step that would panic   *)
(* (overflow of a native operator, division by zero) yields Fault.         *)
(* The state machine draws the first operand at Init and applies one       *)
(* operation per behaviour, recording operands and result.                 *)
(***************************************************************************)
EXTENDS Integers, Sequences, FiniteSets, TLC

\* Width in bits of the signed inner type ($inner_type) and of $unsigned_type.
Bits == 8

\* Width in bits of $prev_unsigned_type.
PrevBits == 4

\* Largest exponent passed to saturating_pow.
MaxExp == 5

\* Largest magnitude of the numerator and denominator given to from_rational
\* and of the factor of the chained saturating_mul_int.
MaxRat == 13

\* const DIV: $inner_type = $div
DIV == 10

Pow2(n) == 2 ^ n

InnerMin == -Pow2(Bits - 1)

InnerMax == Pow2(Bits - 1) - 1

Inner == InnerMin .. InnerMax

\* The widened helper works on u128; here twice the inner width.
U128Max == Pow2(2 * Bits) - 1

\* An integer type N is the pair of its bounds.
SignedT(w) == [lo |-> -Pow2(w - 1), hi |-> Pow2(w - 1) - 1]

UnsignedT(w) == [lo |-> 0, hi |-> Pow2(w) - 1]

InnerT == SignedT(Bits)

RangeOf(T) == T.lo .. T.hi

\* Results: Option values, plain values, and a panic.
Some(v) == [t |-> "Some", v |-> v]

None == [t |-> "None", v |-> 0]

Fault == [t |-> "Fault", v |-> 0]

\* Option::is_some; the steps of an and_then / map chain below pass a None or
\* a panic through unchanged.
IsSome(r) == r.t = "Some"

Abs(a) == IF a < 0 THEN -a ELSE a

\* Rust integer division truncates toward zero.
TruncDiv(a, b) == IF (a < 0) = (b < 0) THEN Abs(a) \div Abs(b) ELSE -(Abs(a) \div Abs(b))

signum(a) == IF a > 0 THEN 1 ELSE IF a < 0 THEN -1 ELSE 0

Clamp(v, T) == IF v > T.hi THEN T.hi ELSE IF v < T.lo THEN T.lo ELSE v

\* Native operators of a primitive integer type T: overflow panics.
NativeMul(a, b, T) == IF a * b \in RangeOf(T) THEN Some(a * b) ELSE Fault

NativeDiv(a, b, T) == IF b = 0 \/ TruncDiv(a, b) \notin RangeOf(T) THEN Fault ELSE Some(TruncDiv(a, b))

\* Primitive checked_* and saturating_* methods of an integer type T.
prim_checked_mul(a, b, T) == IF a * b \in RangeOf(T) THEN Some(a * b) ELSE None

prim_checked_add(a, b, T) == IF a + b \in RangeOf(T) THEN Some(a + b) ELSE None

prim_checked_sub(a, b, T) == IF a - b \in RangeOf(T) THEN Some(a - b) ELSE None

prim_checked_div(a, b, T) == IF b = 0 \/ TruncDiv(a, b) \notin RangeOf(T) THEN None ELSE Some(TruncDiv(a, b))

prim_saturating_mul(a, b, T) == Clamp(a * b, T)

prim_saturating_add(a, b, T) == Clamp(a + b, T)

prim_saturating_sub(a, b, T) == Clamp(a - b, T)

\* TryInto between integer types: fails when the value is out of range.
try_into(v, T) == IF v \in RangeOf(T) THEN Some(v) ELSE None

\* SaturatedConversion::saturated_into.
saturated_into(v, T) == Clamp(v, T)

\* `v as T` between integer types of the model: wraps modulo 2^width.
as_cast(v, T) == ((v - T.lo) % (T.hi - T.lo + 1)) + T.lo

\* helpers_128bit::multiply_by_rational(a, b, c) on u128: floor(a * b / c),
\* an error when c is zero or the result does not fit.
multiply_by_rational(a, b, c) ==
  IF c = 0 THEN None
  ELSE IF (a * b) \div c > U128Max THEN None
  ELSE Some((a * b) \div c)

min_value == InnerMin

max_value == InnerMax

zero == 0

one == DIV

\* from_integer with a wrapping instead of a saturating multiplication.
from_integer_wrapping(int) == as_cast(int * DIV, InnerT)

from_integer(int) == prim_saturating_mul(int, DIV, InnerT)

checked_from_integer(int) == prim_checked_mul(int, DIV, InnerT)

\* fn from_rational: (n.unique_saturated_into() * DIV) / d with native
\* operators.  The set of outcomes over the builds: an overflowing product
\* panics with overflow checks on and wraps with them off; a zero divisor and
\* MIN / -1 panic in every build.
from_rational(n, d, T) ==
  LET m == saturated_into(n, InnerT)
      quot(p) == NativeDiv(p, d, InnerT)
  IN IF m * DIV \in Inner
       THEN {quot(m * DIV)}
       ELSE {Fault, quot(as_cast(m * DIV, InnerT))}

checked_from_rational(n, d, T) ==
  IF d = 0 THEN None
  ELSE LET n1 == try_into(n, InnerT)
           n2 == IF IsSome(n1) THEN prim_checked_mul(n1.v, DIV, InnerT) ELSE n1
           n3 == IF IsSome(n2) THEN prim_checked_div(n2.v, d, InnerT) ELSE n2
       IN IF IsSome(n3) THEN Some(n3.v) ELSE n3

UnsignedOfInner == UnsignedT(Bits)

PrevUnsigned == UnsignedT(PrevBits)

checked_mul_int(self, other, T) ==
  LET r == try_into(other, InnerT)
      lhs == IF self < 0 THEN prim_saturating_mul(self, -1, InnerT) ELSE self
      rhs0 == saturated_into(r.v, InnerT)
      sg == signum(self) * signum(rhs0)
      rhs == IF rhs0 < 0 THEN prim_saturating_mul(rhs0, -1, InnerT) ELSE rhs0
      n1 == prim_checked_mul(as_cast(lhs, UnsignedOfInner), as_cast(rhs, UnsignedOfInner), UnsignedOfInner)
      n2 == IF IsSome(n1) THEN prim_checked_div(n1.v, as_cast(DIV, UnsignedOfInner), UnsignedOfInner) ELSE n1
      n3 == IF IsSome(n2) THEN try_into(n2.v, InnerT) ELSE n2
      n4 == IF IsSome(n3) THEN NativeMul(n3.v, sg, InnerT) ELSE n3
  IN IF ~IsSome(r) THEN r
     ELSE IF IsSome(n4) THEN try_into(n4.v, T) ELSE n4

checked_div_int(self, other, T) ==
  LET n1 == try_into(other, InnerT)
      n2 == IF IsSome(n1) THEN prim_checked_div(self, n1.v, InnerT) ELSE n1
      n3 == IF IsSome(n2) THEN prim_checked_div(n2.v, DIV, InnerT) ELSE n2
  IN IF IsSome(n3) THEN try_into(n3.v, T) ELSE n3

saturating_mul_int(self, other, T) ==
  LET r == checked_mul_int(self, other, T)
      sg == saturated_into(signum(other), InnerT) * signum(self)
  IN IF r.t = "None"
       THEN (IF sg < 0 THEN Some(T.lo) ELSE Some(T.hi))
       ELSE r

\* saturating_abs without the special case of the minimum.
saturating_abs_unguarded(self) ==
  IF self < 0 THEN NativeMul(self, -1, InnerT) ELSE Some(self)

saturating_abs(self) ==
  IF self = InnerMin THEN Some(max_value)
  ELSE IF self < 0 THEN NativeMul(self, -1, InnerT)
  ELSE Some(self)

\* PerThing::from_parts of the associated per-thing type, whose ACCURACY is DIV.
perthing_from_parts(parts) == IF parts > DIV THEN DIV ELSE parts

\* The per-thing type's multiplication by an integer: parts / ACCURACY of int.
perthing_mul(parts, int) == TruncDiv(parts * int, DIV)

\* saturated_multiply_accumulate taking the whole of parts, not its remainder
\* by DIV, as the fractional part.
saturated_multiply_accumulate_whole_parts(self, int, T) ==
  LET div == as_cast(DIV, UnsignedOfInner)
      positive == self > 0
      parts == IF self = InnerMin
                 THEN as_cast(InnerMax, UnsignedOfInner) + 1
                 ELSE as_cast(Abs(self), UnsignedOfInner)
      natural_parts == saturated_into(parts \div div, T)
      fractional_parts == as_cast(parts, PrevUnsigned)
      n == prim_saturating_mul(int, natural_parts, T)
      p == perthing_mul(perthing_from_parts(fractional_parts), int)
      excess == prim_saturating_add(n, p, T)
  IN IF positive
       THEN Some(prim_saturating_add(int, excess, T))
       ELSE Some(prim_saturating_sub(int, excess, T))

saturated_multiply_accumulate(self, int, T) ==
  LET div == as_cast(DIV, UnsignedOfInner)
      positive == self > 0
      parts == IF self = InnerMin
                 THEN as_cast(InnerMax, UnsignedOfInner) + 1
                 ELSE as_cast(Abs(self), UnsignedOfInner)
      natural_parts == saturated_into(parts \div div, T)
      fractional_parts == as_cast(parts % div, PrevUnsigned)
      n == prim_saturating_mul(int, natural_parts, T)
      p == perthing_mul(perthing_from_parts(fractional_parts), int)
      excess == prim_saturating_add(n, p, T)
  IN IF positive
       THEN Some(prim_saturating_add(int, excess, T))
       ELSE Some(prim_saturating_sub(int, excess, T))

checked_mul(self, rhs0) ==
  LET sg == signum(self) * signum(rhs0)
      lhs == IF self < 0 THEN prim_saturating_mul(self, -1, InnerT) ELSE self
      rhs == IF rhs0 < 0 THEN prim_saturating_mul(rhs0, -1, InnerT) ELSE rhs0
      n1 == multiply_by_rational(lhs, rhs, DIV)
      n2 == IF IsSome(n1) THEN try_into(n1.v, InnerT) ELSE n1
  IN IF IsSome(n2) THEN NativeMul(n2.v, sg, InnerT) ELSE n2

\* checked_div without the guard for min_value / -1.
checked_div_unguarded_min(self, rhs0) ==
  IF signum(rhs0) = 0 THEN None
  ELSE IF self = 0 THEN Some(self)
  ELSE LET sg == TruncDiv(signum(self), signum(rhs0))
           lhs == IF self < 0 THEN prim_saturating_mul(self, -1, InnerT) ELSE self
           rhs == IF rhs0 < 0 THEN prim_saturating_mul(rhs0, -1, InnerT) ELSE rhs0
           n1 == multiply_by_rational(lhs, DIV, rhs)
           n2 == IF IsSome(n1) THEN try_into(n1.v, InnerT) ELSE n1
       IN IF IsSome(n2) THEN NativeMul(n2.v, sg, InnerT) ELSE n2

\* checked_div with the short-circuit for a zero dividend taken first.
checked_div_zero_first(self, rhs0) ==
  IF self = 0 THEN Some(self)
  ELSE IF signum(rhs0) = 0 \/ (self = min_value /\ rhs0 = from_integer(-1)) THEN None
  ELSE LET sg == TruncDiv(signum(self), signum(rhs0))
           lhs == IF self < 0 THEN prim_saturating_mul(self, -1, InnerT) ELSE self
           rhs == IF rhs0 < 0 THEN prim_saturating_mul(rhs0, -1, InnerT) ELSE rhs0
           n1 == multiply_by_rational(lhs, DIV, rhs)
           n2 == IF IsSome(n1) THEN try_into(n1.v, InnerT) ELSE n1
       IN IF IsSome(n2) THEN NativeMul(n2.v, sg, InnerT) ELSE n2

checked_div(self, rhs0) ==
  IF signum(rhs0) = 0 \/ (self = min_value /\ rhs0 = from_integer(-1)) THEN None
  ELSE IF self = 0 THEN Some(self)
  ELSE LET sg == TruncDiv(signum(self), signum(rhs0))
           lhs == IF self < 0 THEN prim_saturating_mul(self, -1, InnerT) ELSE self
           rhs == IF rhs0 < 0 THEN prim_saturating_mul(rhs0, -1, InnerT) ELSE rhs0
           n1 == multiply_by_rational(lhs, DIV, rhs)
           n2 == IF IsSome(n1) THEN try_into(n1.v, InnerT) ELSE n1
       IN IF IsSome(n2) THEN NativeMul(n2.v, sg, InnerT) ELSE n2

checked_add(self, rhs) == prim_checked_add(self, rhs, InnerT)

checked_sub(self, rhs) == prim_checked_sub(self, rhs, InnerT)

saturating_add(self, rhs) == Some(prim_saturating_add(self, rhs, InnerT))

saturating_sub(self, rhs) == Some(prim_saturating_sub(self, rhs, InnerT))

saturating_mul(self, rhs) ==
  LET r == checked_mul(self, rhs)
  IN IF r.t = "None"
       THEN (IF signum(self) * signum(rhs) < 0 THEN Some(min_value) ELSE Some(max_value))
       ELSE r

\* 64 - exp.leading_zeros(): the number of bits of exp.
RECURSIVE msb_pos(_)
msb_pos(exp) == IF exp = 0 THEN 0 ELSE 1 + msb_pos(exp \div 2)

\* The loop `for i in i..msb` of saturating_pow on (result, pow_val).
RECURSIVE pow_loop(_, _, _, _, _)
pow_loop(i, msb, exp, result, pow_val) ==
  IF i >= msb THEN result
  ELSE LET r1 == IF (exp \div Pow2(i)) % 2 = 1
                   THEN saturating_mul(result.v, pow_val.v)
                   ELSE result
           p1 == saturating_mul(pow_val.v, pow_val.v)
       IN IF ~IsSome(r1) THEN r1
          ELSE IF ~IsSome(p1) THEN p1
          ELSE pow_loop(i + 1, msb, exp, r1, p1)

saturating_pow(self, exp) ==
  IF exp = 0 THEN Some(from_integer(1))
  ELSE pow_loop(0, msb_pos(exp), exp, Some(from_integer(1)), Some(self))

\* ops::Mul dividing before it multiplies: (self.0 / DIV) * rhs.0.
mul_divide_first(self, rhs) ==
  LET q == TruncDiv(self, DIV)
  IN IF q * rhs \in Inner THEN {Some(q * rhs)} ELSE {Fault, Some(as_cast(q * rhs, InnerT))}

\* ops::Mul: (self.0 * rhs.0) / DIV with native operators; the set of
\* outcomes over the builds (panic, or the wrapped product divided).
mul(self, rhs) ==
  IF self * rhs \in Inner
    THEN {NativeDiv(self * rhs, DIV, InnerT)}
    ELSE {Fault, NativeDiv(as_cast(self * rhs, InnerT), DIV, InnerT)}

\* impl From<P: PerThing>: p is the value p.deconstruct(), accuracy is P::ACCURACY.
from_perthing(p, acc) ==
  LET accuracy == as_cast(saturated_into(acc, InnerT), InnerT)
      value == as_cast(saturated_into(p, InnerT), InnerT)
      r == checked_from_rational(value, accuracy, InnerT)
  IN IF r.t = "None" THEN Some(max_value) ELSE r

\* Integer types N the generic operations are instantiated with.
MulIntTypes == {SignedT(Bits - 2), InnerT, SignedT(Bits + 1)}

AccumulateTypes == {PrevUnsigned, UnsignedOfInner, SignedT(Bits + 1)}

RationalTypes == {InnerT, SignedT(Bits + 1)}

\* ACCURACY of the per-thing types converted from.
PerThingAccuracies == 1 .. DIV * DIV

RatRange == -MaxRat .. MaxRat

VARIABLES x, y, k, N, op, out

vars == <<x, y, k, N, op, out>>

Init ==
  /\ x \in Inner
  /\ y = 0
  /\ k = 0
  /\ N = InnerT
  /\ op = "start"
  /\ out = None

FromInteger ==
  /\ op = "start"
  /\ op' = "from_integer"
  /\ out' = Some(from_integer(x))
  /\ UNCHANGED <<x, y, k, N>>

CheckedFromInteger ==
  /\ op = "start"
  /\ op' = "checked_from_integer"
  /\ out' = checked_from_integer(x)
  /\ UNCHANGED <<x, y, k, N>>

SaturatingAbs ==
  /\ op = "start"
  /\ op' = "saturating_abs"
  /\ out' = saturating_abs(x)
  /\ UNCHANGED <<x, y, k, N>>

\* from_rational(x, d)
FromRational ==
  /\ op = "start"
  /\ x \in RatRange
  /\ \E d \in RatRange :
       /\ y' = d
       /\ out' \in from_rational(x, d, InnerT)
  /\ op' = "from_rational"
  /\ UNCHANGED <<x, k, N>>

\* from_rational(x, y).saturating_mul_int(c)
RationalSaturatingMulInt ==
  /\ op = "from_rational"
  /\ out.t = "Some"
  /\ \E c \in RatRange :
       /\ k' = c
       /\ out' = saturating_mul_int(out.v, c, InnerT)
  /\ op' = "from_rational.saturating_mul_int"
  /\ UNCHANGED <<x, y, N>>

\* checked_from_rational(n, x)
CheckedFromRational ==
  /\ op = "start"
  /\ \E T \in RationalTypes : \E n \in RangeOf(T) :
       /\ N' = T
       /\ y' = n
       /\ out' = checked_from_rational(n, x, T)
  /\ op' = "checked_from_rational"
  /\ UNCHANGED <<x, k>>

CheckedMulInt ==
  /\ op = "start"
  /\ \E T \in MulIntTypes : \E other \in RangeOf(T) :
       /\ N' = T
       /\ y' = other
       /\ out' = checked_mul_int(x, other, T)
  /\ op' = "checked_mul_int"
  /\ UNCHANGED <<x, k>>

CheckedDivInt ==
  /\ op = "start"
  /\ \E T \in MulIntTypes : \E other \in RangeOf(T) :
       /\ N' = T
       /\ y' = other
       /\ out' = checked_div_int(x, other, T)
  /\ op' = "checked_div_int"
  /\ UNCHANGED <<x, k>>

SaturatingMulInt ==
  /\ op = "start"
  /\ \E T \in MulIntTypes : \E other \in RangeOf(T) :
       /\ N' = T
       /\ y' = other
       /\ out' = saturating_mul_int(x, other, T)
  /\ op' = "saturating_mul_int"
  /\ UNCHANGED <<x, k>>

SaturatedMultiplyAccumulate ==
  /\ op = "start"
  /\ \E T \in AccumulateTypes : \E int \in RangeOf(T) :
       /\ N' = T
       /\ y' = int
       /\ out' = saturated_multiply_accumulate(x, int, T)
  /\ op' = "saturated_multiply_accumulate"
  /\ UNCHANGED <<x, k>>

CheckedAdd ==
  /\ op = "start"
  /\ \E rhs \in Inner :
       /\ y' = rhs
       /\ out' = checked_add(x, rhs)
  /\ op' = "checked_add"
  /\ UNCHANGED <<x, k, N>>

CheckedSub ==
  /\ op = "start"
  /\ \E rhs \in Inner :
       /\ y' = rhs
       /\ out' = checked_sub(x, rhs)
  /\ op' = "checked_sub"
  /\ UNCHANGED <<x, k, N>>

CheckedMul ==
  /\ op = "start"
  /\ \E rhs \in Inner :
       /\ y' = rhs
       /\ out' = checked_mul(x, rhs)
  /\ op' = "checked_mul"
  /\ UNCHANGED <<x, k, N>>

CheckedDiv ==
  /\ op = "start"
  /\ \E rhs \in Inner :
       /\ y' = rhs
       /\ out' = checked_div(x, rhs)
  /\ op' = "checked_div"
  /\ UNCHANGED <<x, k, N>>

SaturatingAdd ==
  /\ op = "start"
  /\ \E rhs \in Inner :
       /\ y' = rhs
       /\ out' = saturating_add(x, rhs)
  /\ op' = "saturating_add"
  /\ UNCHANGED <<x, k, N>>

SaturatingSub ==
  /\ op = "start"
  /\ \E rhs \in Inner :
       /\ y' = rhs
       /\ out' = saturating_sub(x, rhs)
  /\ op' = "saturating_sub"
  /\ UNCHANGED <<x, k, N>>

SaturatingMul ==
  /\ op = "start"
  /\ \E rhs \in Inner :
       /\ y' = rhs
       /\ out' = saturating_mul(x, rhs)
  /\ op' = "saturating_mul"
  /\ UNCHANGED <<x, k, N>>

SaturatingPow ==
  /\ op = "start"
  /\ \E exp \in 0 .. MaxExp :
       /\ y' = exp
       /\ out' = saturating_pow(x, exp)
  /\ op' = "saturating_pow"
  /\ UNCHANGED <<x, k, N>>

Mul ==
  /\ op = "start"
  /\ \E rhs \in Inner :
       /\ y' = rhs
       /\ out' \in mul(x, rhs)
  /\ op' = "mul"
  /\ UNCHANGED <<x, k, N>>

\* $name::from(p) for a per-thing p with p.deconstruct() = x
FromPerThing ==
  /\ op = "start"
  /\ \E acc \in PerThingAccuracies :
       /\ x \in 0 .. acc
       /\ y' = acc
       /\ out' = from_perthing(x, acc)
  /\ op' = "from_perthing"
  /\ UNCHANGED <<x, k, N>>

Next ==
  \/ FromInteger
  \/ CheckedFromInteger
  \/ FromRational
  \/ RationalSaturatingMulInt
  \/ CheckedFromRational
  \/ CheckedMulInt
  \/ CheckedDivInt
  \/ SaturatingMulInt
  \/ SaturatingAbs
  \/ SaturatedMultiplyAccumulate
  \/ CheckedAdd
  \/ CheckedSub
  \/ CheckedMul
  \/ CheckedDiv
  \/ SaturatingAdd
  \/ SaturatingSub
  \/ SaturatingMul
  \/ SaturatingPow
  \/ Mul
  \/ FromPerThing

Spec == Init /\ [][Next]_vars

----------------------------------------------------------------------------
(* The exact values the operations are specified by. *)

\* a * b / c over the integers, truncated toward zero.
ExactMulDiv(a, b, c) == TruncDiv(a * b, c)

\* The magnitude the code takes of an inner value: |min| is clamped to max.
Magnitude(a) == IF a = InnerMin THEN InnerMax ELSE Abs(a)

\* C1: checked_mul(a, b) is Some of the exact product a * b / DIV truncated
\* toward zero whenever that product is an inner value, and None otherwise,
\* for every pair of inner values, min_value() included.
C1_CheckedMulExact ==
  op = "checked_mul" =>
    out = IF ExactMulDiv(x, y, DIV) \in Inner
            THEN Some(ExactMulDiv(x, y, DIV))
            ELSE None

\* C2: saturating_mul_int(other) is the exact value self * other / DIV
\* truncated toward zero when N holds it, and otherwise the bound of N on the
\* side of the true product; a zero self gives 0; and
\* from_rational(n, d).saturating_mul_int(c) never has the sign opposite to
\* the product of the signs of n, d and c.
C2_SaturatingMulIntExact ==
  /\ op = "saturating_mul_int" =>
       /\ out = IF ExactMulDiv(x, y, DIV) \in RangeOf(N)
                  THEN Some(ExactMulDiv(x, y, DIV))
                  ELSE IF x * y > 0 THEN Some(N.hi) ELSE Some(N.lo)
       /\ x = zero => out = Some(0)
  /\ op = "from_rational.saturating_mul_int" =>
       /\ out.t = "Some"
       /\ signum(out.v) \in {0, signum(x) * signum(y) * signum(k)}

\* C3 as stated: checked_div returns Some for every pair other than a zero
\* rhs and (min_value(), from_integer(-1)).
C3_DivNoneOnlyForZeroOrMinByMinusOne ==
  (op = "checked_div" /\ y # 0 /\ ~(x = min_value /\ y = from_integer(-1)))
    => out.t = "Some"

\* C3 amended: checked_div returns None exactly when rhs is zero, or self is
\* min_value() and rhs is from_integer(-1), or self is not zero and the
\* magnitude |self| * DIV / |rhs| of the quotient (|min| taken as max) exceeds
\* the maximum inner value; for every other pair it returns Some.
C3_DivNoneCases ==
  op = "checked_div" =>
    IF \/ y = 0
       \/ (x = min_value /\ y = from_integer(-1))
       \/ (x # 0 /\ (Magnitude(x) * DIV) \div Magnitude(y) > InnerMax)
      THEN out = None
      ELSE out.t = "Some"

\* A division that overflows although it is neither by zero nor min by -1.
C3_Witness ==
  /\ op = "checked_div"
  /\ y # 0
  /\ ~(x = min_value /\ y = from_integer(-1))
  /\ out = None

\* C4: checked_div(x, zero()) is None for every x, checked_div(min_value(),
\* from_integer(-1)) is None, and checked_div(zero(), y) is Some(zero()) for
\* every nonzero y.
C4_DivEdgeCases ==
  op = "checked_div" =>
    /\ y = zero => out = None
    /\ (x = min_value /\ y = from_integer(-1)) => out = None
    /\ (x = zero /\ y # zero) => out = Some(zero)

\* The zero dividend divided by the smallest negative value.
C4_Witness ==
  /\ op = "checked_div"
  /\ x = zero
  /\ y = min_value
  /\ out = Some(zero)

\* C5: the conversion of a per-thing ratio with 0 <= value <= ACCURACY never
\* takes the max_value() fallback: it is checked_from_rational(value,
\* ACCURACY) unwrapped and lies between zero() and one().
C5_PerThingNeverFallsBack ==
  op = "from_perthing" =>
    /\ checked_from_rational(x, y, InnerT).t = "Some"
    /\ out = checked_from_rational(x, y, InnerT)
    /\ zero <= out.v /\ out.v <= one

\* C6: when i * DIV is an inner value, from_integer(i) has inner value i * DIV
\* and checked_from_integer(i) is Some(from_integer(i)); otherwise
\* checked_from_integer(i) is None and from_integer(i) is max_value() for
\* i > 0 and min_value() for i < 0.
C6_FromInteger ==
  /\ op = "from_integer" =>
       out = IF x * DIV \in Inner THEN Some(x * DIV)
             ELSE IF x > 0 THEN Some(max_value) ELSE Some(min_value)
  /\ op = "checked_from_integer" =>
       out = IF x * DIV \in Inner THEN Some(from_integer(x)) ELSE None

\* A negative integer too large in magnitude, saturated to min_value().
C6_Witness ==
  /\ op = "from_integer"
  /\ x < 0
  /\ x * DIV \notin Inner
  /\ out = Some(min_value)

\* C7: for every int of the target type, zero().saturated_multiply_accumulate
\* (int) is int and one().saturated_multiply_accumulate(int) is
\* int.saturating_add(int).
C7_MultiplyAccumulateZeroOne ==
  op = "saturated_multiply_accumulate" =>
    /\ x = zero => out = Some(y)
    /\ x = one => out = Some(prim_saturating_add(y, y, N))

\* one() accumulated onto an int whose double saturates.
C7_Witness ==
  /\ op = "saturated_multiply_accumulate"
  /\ x = one
  /\ y + y > N.hi
  /\ out = Some(N.hi)

\* The checked and saturating operations.
SafeOps ==
  { "checked_add", "checked_sub", "checked_mul", "checked_div",
    "checked_from_integer", "checked_from_rational", "checked_mul_int",
    "checked_div_int", "saturating_add", "saturating_sub", "saturating_mul",
    "saturating_pow", "saturating_abs", "saturating_mul_int",
    "from_rational.saturating_mul_int", "saturated_multiply_accumulate" }

\* C8: no checked or saturating operation reaches an arithmetic fault on any
\* input; each returns a defined result.
C8_NoFault ==
  op \in SafeOps => out.t \in {"Some", "None"}

\* saturating_abs of min_value(), whose negation is not an inner value.
C8_Witness ==
  /\ op = "saturating_abs"
  /\ x = min_value
  /\ out = Some(max_value)

\* C9: where the product of the inner values is an inner value, a * b is
\* checked_mul(a, b) unwrapped, and from_integer(1) * b is b for every b with
\* b * DIV an inner value.
C9_MulAgreesWithCheckedMul ==
  op = "mul" =>
    /\ x * y \in Inner => (out.t = "Some" /\ out = checked_mul(x, y))
    /\ (x = from_integer(1) /\ y * DIV \in Inner) => out = Some(y)

\* from_integer(1) * from_integer(1) = from_integer(1), the largest integer
\* whose product of inner values with from_integer(1) is an inner value.
C9_Witness ==
  /\ op = "mul"
  /\ x = from_integer(1)
  /\ y = from_integer(1)
  /\ x * y \in Inner
  /\ out = Some(from_integer(1))

\* C10: saturating_pow(x, 1) is x and saturating_pow(x, 0) is one(), for
\* every x, min_value() and max_value() included.
C10_PowOneIsIdentity ==
  op = "saturating_pow" =>
    /\ y = 1 => out = Some(x)
    /\ y = 0 => out = Some(one)

====
